---- MODULE Spec2Model ----
(***************************************************************************)
(* Model of the remote execution and retrieval orchestrator of             *)
(* ceph-details (fetch_ceph_data.py): the batch loop over the configured   *)
(* servers, the prompt detector wait_for_prompt, the sudo / completion     *)
(* loop, the search for the output file and its download.                  *)
(*                                                                         *)
(* Byte strings are sequences of one-character strings.  The remote side   *)
(* (what the channel delivers, how connect / sftp calls end, what the      *)
(* remote directory holds) is the environment: every action that reads it  *)
(* chooses nondeterministically among its possible answers.  Elapsed time  *)
(* is abstracted: a loop's timeout may expire whenever the loop is at its  *)
(* condition (the remote was silent for the rest of the period).           *)
(***************************************************************************)
EXTENDS Naturals, Integers, Sequences, FiniteSets, TLC

(***************************************************************************)
(* Bounds of the model.                                                    *)
(***************************************************************************)
NumTargets == 2
MaxChunks == 2

Targets == 1..NumTargets

(***************************************************************************)
(* Byte strings and the matching primitives the code uses.                 *)
(***************************************************************************)
PasswordFor == <<"p", "a", "s", "s", "w", "o", "r", "d", " ", "f", "o", "r">>
PasswordColon == <<"p", "a", "s", "s", "w", "o", "r", "d", ":">>
ResultsSavedTo == <<"R", "e", "s", "u", "l", "t", "s", " ", "s", "a", "v", "e", "d", " ", "t", "o">>
CephMappingMd == <<"c", "e", "p", "h", "-", "m", "a", "p", "p", "i", "n", "g", ".", "m", "d">>
CephDetailsOutput == <<"c", "e", "p", "h", "-", "d", "e", "t", "a", "i", "l", "s", "-", "o", "u", "t", "p", "u", "t">>

LowerMap ==
    ("A" :> "a") @@ ("B" :> "b") @@ ("C" :> "c") @@ ("D" :> "d") @@ ("E" :> "e") @@
    ("F" :> "f") @@ ("G" :> "g") @@ ("H" :> "h") @@ ("I" :> "i") @@ ("J" :> "j") @@
    ("K" :> "k") @@ ("L" :> "l") @@ ("M" :> "m") @@ ("N" :> "n") @@ ("O" :> "o") @@
    ("P" :> "p") @@ ("Q" :> "q") @@ ("R" :> "r") @@ ("S" :> "s") @@ ("T" :> "t") @@
    ("U" :> "u") @@ ("V" :> "v") @@ ("W" :> "w") @@ ("X" :> "x") @@ ("Y" :> "y") @@
    ("Z" :> "z")

\* bytes.lower()
Lower(buf) ==
    [i \in 1..Len(buf) |-> IF buf[i] \in DOMAIN LowerMap THEN LowerMap[buf[i]] ELSE buf[i]]

\* needle in haystack (bytes containment)
Contains(buf, needle) ==
    \E i \in 1..(Len(buf) + 1) :
        /\ i + Len(needle) - 1 <= Len(buf)
        /\ \A k \in 1..Len(needle) : buf[i + k - 1] = needle[k]

\* the bytes \S excludes (the vertical tab is left out: no chunk holds one)
Whitespace == {" ", "\t", "\n", "\r", "\f"}

\* Regular-expression atoms, as far as the patterns of the code need them.
Lit(ch) == [t |-> "lit", s |-> {ch}]
Class(chars) == [t |-> "lit", s |-> chars]
EndAnchor == [t |-> "end", s |-> {}]
NonSpacePlus == [t |-> "nsplus", s |-> {}]

\* pat[k..] matches buf starting at position i (Python re semantics:
\* '$' holds at the end of the string or before a newline that ends it).
RECURSIVE MatchAt(_, _, _, _)
MatchAt(pat, k, buf, i) ==
    IF k > Len(pat) THEN TRUE
    ELSE CASE pat[k].t = "lit" ->
                 /\ i <= Len(buf)
                 /\ buf[i] \in pat[k].s
                 /\ MatchAt(pat, k + 1, buf, i + 1)
           [] pat[k].t = "end" ->
                 /\ \/ i = Len(buf) + 1
                    \/ (i = Len(buf) /\ buf[i] = "\n")
                 /\ MatchAt(pat, k + 1, buf, i)
           [] pat[k].t = "nsplus" ->
                 \E j \in (i + 1)..(Len(buf) + 1) :
                     /\ \A m \in i..(j - 1) : buf[m] \notin Whitespace
                     /\ MatchAt(pat, k + 1, buf, j)

\* re.search(pat, buf)
ReSearch(pat, buf) == \E i \in 1..(Len(buf) + 1) : MatchAt(pat, 1, buf, i)

\* prompt_patterns: each byte string is compiled as a regular expression.
prompt_patterns ==
    << <<EndAnchor, Lit(" ")>>,
       <<Lit(">"), Lit(" ")>>,
       <<Lit("#"), Lit(" ")>>,
       <<Lit("%")>>,
       <<Lit("]"), EndAnchor, Lit(" ")>>,
       <<Lit(":"), NonSpacePlus, Lit(">")>>,
       <<Lit("~"), Class({"$", "#", ">"}), Lit(" ")>> >>

LoginPattern == <<Class({"L", "l"}), Lit("o"), Lit("g"), Lit("i"), Lit("n"), Lit(":")>>
PasswordPattern ==
    <<Class({"P", "p"}), Lit("a"), Lit("s"), Lit("s"), Lit("w"), Lit("o"), Lit("r"),
      Lit("d"), Lit(":")>>

\* for pattern in prompt_patterns: if re.search(pattern, output)
ShellPromptMatch(buf) ==
    \E p \in 1..Len(prompt_patterns) : ReSearch(prompt_patterns[p], buf)

\* re.search(b'[Ll]ogin:', output) or re.search(b'[Pp]assword:', output)
AuthPromptMatch(buf) == ReSearch(LoginPattern, buf) \/ ReSearch(PasswordPattern, buf)

\* the sudo prompt test of the completion loop, without its guard
SudoPromptSeen(buf) ==
    Contains(Lower(buf), PasswordFor) \/ Contains(Lower(buf), PasswordColon)

\* the completion markers
CompletionSeen(buf) ==
    \/ Contains(buf, ResultsSavedTo)
    \/ Contains(buf, CephMappingMd)
    \/ Contains(buf, CephDetailsOutput)

(***************************************************************************)
(* What the interactive channel may deliver in one recv().                 *)
(***************************************************************************)
ChunkSet ==
    { <<"h", "$">>,
      <<"#", " ">>,
      <<"P", "a", "s", "s", "w", "o", "r", "d", ":">>,
      ResultsSavedTo }

(***************************************************************************)
(* The remote directory the search command looks at.  A listing gives,    *)
(* per file name, its age in minutes (0: the file does not exist).         *)
(***************************************************************************)
FileNames ==
    << CephMappingMd,
       CephDetailsOutput \o <<"-", "a", ".", "m", "d">>,
       CephDetailsOutput \o <<"-", "b", ".", "m", "d">> >>

Files == 1..Len(FileNames)
Ages == {0, 1, 5, 20}
Listings == [Files -> Ages]

\* output_patterns
output_patterns ==
    << CephMappingMd,
       CephDetailsOutput \o <<"*", ".", "m", "d">> >>

\* find -mmin -10: modified less than ten minutes ago
MMinWindow == 10

\* find -name: shell glob with '*' on the file's base name
RECURSIVE Glob(_, _, _, _)
Glob(pat, i, name, j) ==
    IF i > Len(pat) THEN j > Len(name)
    ELSE IF pat[i] = "*"
         THEN \E n \in j..(Len(name) + 1) : Glob(pat, i + 1, name, n)
         ELSE /\ j <= Len(name)
              /\ name[j] = pat[i]
              /\ Glob(pat, i + 1, name, j + 1)

\* byte order of the characters file names are made of (ASCII)
ByteOrder ==
    <<"-", ".", "a", "b", "c", "d", "e", "g", "h", "i", "l", "m", "n", "o", "p",
      "s", "t", "u">>

Ord(ch) == CHOOSE i \in 1..Len(ByteOrder) : ByteOrder[i] = ch

\* a sorts before b, byte by byte
RECURSIVE LexLess(_, _)
LexLess(a, b) ==
    IF b = <<>> THEN FALSE
    ELSE IF a = <<>> THEN TRUE
    ELSE IF a[1] = b[1] THEN LexLess(Tail(a), Tail(b))
    ELSE Ord(a[1]) < Ord(b[1])

\* find <dir> -name '<pattern>' -type f -mmin -10
FindMatches(l, pattern) ==
    {f \in Files : l[f] > 0 /\ l[f] < MMinWindow /\ Glob(pattern, 1, FileNames[f], 1)}

\* ... | sort -r | head -1   (0: no line of output)
SortRHead(fs) ==
    IF fs = {} THEN 0
    ELSE CHOOSE f \in fs : \A g \in fs \ {f} : LexLess(FileNames[g], FileNames[f])

FindCmd(l, pattern) == SortRHead(FindMatches(l, pattern))

(***************************************************************************)
(* The configuration file, as configparser presents it.  A section proxy   *)
(* shows the options of its own section and those of [DEFAULT]: both       *)
(* 'option in config[section]' and the length (truth value) of             *)
(* config[section], and config[section].items(), count the [DEFAULT]       *)
(* options in.                                                             *)
(***************************************************************************)
required_sections == <<"ssh", "servers", "paths">>
required_ssh_options == <<"username", "key_file">>
required_paths_options == <<"remote_script_path">>

Range(seq) == {seq[i] : i \in DOMAIN seq}

\* config files: exists (the file is there), sections (the section headers
\* in it), ssh / paths (required options written in the section of that name),
\* servers (number of entries written under [servers]), defaults (number of
\* options written under [DEFAULT], none of them with a required name).
\* The [servers] view of a file shows no entry or NumTargets entries.
ConfigFiles ==
    { c \in [exists : BOOLEAN,
             sections : SUBSET Range(required_sections),
             ssh : SUBSET Range(required_ssh_options),
             paths : SUBSET Range(required_paths_options),
             servers : {0, NumTargets},
             defaults : {0, NumTargets}] :
        c.servers + c.defaults \in {0, NumTargets} }

\* the configuration the runs of the batch alone are checked with
ValidConfig ==
    [exists |-> TRUE, sections |-> Range(required_sections),
     ssh |-> Range(required_ssh_options), paths |-> Range(required_paths_options),
     servers |-> NumTargets, defaults |-> 0]

\* len(config['servers']): own entries and [DEFAULT] options
ServersLen(c) == c.servers + c.defaults

\* validate_config: TRUE when it returns, FALSE when it calls sys.exit(1)
validate_config(c) ==
    /\ \A i \in DOMAIN required_sections : required_sections[i] \in c.sections
    /\ \A i \in DOMAIN required_ssh_options : required_ssh_options[i] \in c.ssh
    /\ \A i \in DOMAIN required_paths_options : required_paths_options[i] \in c.paths
    /\ ServersLen(c) # 0

(***************************************************************************)
(* Credential material.                                                    *)
(***************************************************************************)
\* the loaders, in the order the code tries them
KeyLoaders == <<"Ed25519Key", "RSAKey", "ECDSAKey", "DSSKey">>

\* key files: no file at the path, or a file in the format of one loader
\* ("none": of no loader), possibly encrypted
KeyFiles ==
    {[exists |-> FALSE, format |-> "none", encrypted |-> FALSE]} \cup
    [exists : {TRUE}, format : {"Ed25519Key", "RSAKey", "ECDSAKey", "DSSKey", "none"},
     encrypted : BOOLEAN]

\* the configurations a run of the whole batch is checked with
RunConfigs ==
    { [key_file |-> [exists |-> FALSE, format |-> "none", encrypted |-> FALSE],
       key_requires_password |-> FALSE, script_dir |-> TRUE],
      [key_file |-> [exists |-> TRUE, format |-> "none", encrypted |-> FALSE],
       key_requires_password |-> FALSE, script_dir |-> TRUE],
      [key_file |-> [exists |-> TRUE, format |-> "RSAKey", encrypted |-> FALSE],
       key_requires_password |-> FALSE, script_dir |-> TRUE],
      [key_file |-> [exists |-> TRUE, format |-> "RSAKey", encrypted |-> FALSE],
       key_requires_password |-> FALSE, script_dir |-> FALSE],
      [key_file |-> [exists |-> TRUE, format |-> "DSSKey", encrypted |-> TRUE],
       key_requires_password |-> TRUE, script_dir |-> TRUE],
      [key_file |-> [exists |-> TRUE, format |-> "DSSKey", encrypted |-> TRUE],
       key_requires_password |-> FALSE, script_dir |-> TRUE] }

\* <Loader>.from_private_key_file(key_file, password=key_password) returns a key
\* (otherwise it raises SSHException)
FromPrivateKeyFile(loader, kf, password) ==
    /\ kf.format = loader
    /\ kf.encrypted => password = "secret"

\* the chain without its innermost try: Ed25519, RSA and ECDSA only
LoadPrivateKey_NoDSS(kf, password) ==
    IF \E k \in 1..3 : FromPrivateKeyFile(KeyLoaders[k], kf, password)
    THEN KeyLoaders[CHOOSE k \in 1..3 : FromPrivateKeyFile(KeyLoaders[k], kf, password)]
    ELSE "none"

\* the nested try/except chain: the first loader that accepts ("none": none does)
LoadPrivateKey(kf, password) ==
    IF \E k \in 1..Len(KeyLoaders) : FromPrivateKeyFile(KeyLoaders[k], kf, password)
    THEN KeyLoaders[CHOOSE k \in 1..Len(KeyLoaders) :
                        /\ FromPrivateKeyFile(KeyLoaders[k], kf, password)
                        /\ \A j \in 1..(k - 1) :
                               ~FromPrivateKeyFile(KeyLoaders[j], kf, password)]
    ELSE "none"

(***************************************************************************)
(* State.                                                                  *)
(***************************************************************************)
VARIABLES
    pc,                    \* position in main and execute_remote_script_and_fetch_output
    conf,                  \* the configuration file at config_path
    idx,                   \* position of the for loop in config['servers']
    key_file,              \* the file at the configured key path
    key_requires_password, \* config['ssh'] key_requires_password
    script_dir,            \* os.path.dirname(remote_script_path) is not empty
    key_password,          \* "None", "" ("empty"), a passphrase ("secret"), or deleted ("unbound")
    sudo_password,         \* "unbound" before it is read and after del, else "secret"
    asked,                 \* number of getpass prompts shown so far
    private_key,           \* loader of the key loaded for the current server
    servers_successful,
    servers_failed,
    output,                \* the buffer of the wait loop in progress
    nrecv,                 \* chunks received in the wait loop in progress
    wp_exit,               \* return statement the last wait_for_prompt left by
    sudo_prompted,
    script_completed,
    sent,                  \* what was sent on the current server's channel, in order
    counted,               \* per server: the increments of the two counters made for it
    silent,                \* per server: its shell never writes a shell prompt
    connects,              \* per server: ssh.connect calls made for it
    connect_result,        \* per server: how its ssh.connect ended ("none": not called)
    transports,            \* servers whose transport is open
    channels,              \* servers whose interactive channel is open
    sftps,                 \* servers whose SFTP channel is open
    ssh_transport,         \* the transport the SSHClient object holds (0: none)
    feed,                  \* scripted channel: the chunks it will still deliver
    listing,               \* scripted search: the remote directory it looks at
    remote_output_path,    \* 0: None, else the file found
    local_files,           \* per server: content of the local file written (0: no file)
    launcher,              \* launch_ceph_dashboard.py: position in main, its locals, its exit status
    dashboard              \* app.py: the output directory it globs, the last request and response

vars ==
    <<pc, conf, idx, key_file, key_requires_password, script_dir, key_password,
      sudo_password, asked, private_key, servers_successful, servers_failed,
      output, nrecv, wp_exit, sudo_prompted, script_completed, sent, counted,
      silent, connects, connect_result, transports, channels, sftps, ssh_transport, feed,
      listing, remote_output_path, local_files, launcher, dashboard>>

config == <<conf, key_file, key_requires_password, script_dir, silent>>
frontend == <<launcher, dashboard>>
secrets == <<key_password, sudo_password, asked>>
counters == <<servers_successful, servers_failed>>
waitvars == <<output, nrecv, wp_exit>>
attempts == <<connects, connect_result>>
sudovars == <<sudo_prompted, script_completed>>
sessions == <<transports, channels, sftps, ssh_transport>>
artifact == <<remote_output_path, local_files>>
scripted == <<feed, listing>>

NoListing == [f \in Files |-> 0]

\* launch_ceph_dashboard.py before main() runs: nothing fetched, nothing typed,
\* no web application process, no exit status
LauncherStart ==
    [pc |-> "main", child |-> "none", fetch_success |-> "unset", typed |-> <<>>,
     response |-> <<>>, app_process |-> "none", status |-> "none"]

\* app.py before any file is collected and before any request
DashboardStart ==
    [collected |-> {}, server_name |-> <<>>, response |-> [kind |-> "none", data |-> <<>>]]

InitRun ==
    /\ pc = "check_key"
    /\ conf = ValidConfig
    /\ idx = 1
    /\ key_password = "None"
    /\ sudo_password = "unbound"
    /\ asked = 0
    /\ private_key = "none"
    /\ servers_successful = 0
    /\ servers_failed = 0
    /\ output = <<>>
    /\ nrecv = 0
    /\ wp_exit = "none"
    /\ sudo_prompted = FALSE
    /\ script_completed = FALSE
    /\ sent = <<>>
    /\ counted = [t \in Targets |-> [ok |-> 0, failed |-> 0]]
    /\ connects = [t \in Targets |-> 0]
    /\ connect_result = [t \in Targets |-> "none"]
    /\ transports = {}
    /\ channels = {}
    /\ sftps = {}
    /\ ssh_transport = 0
    /\ feed = <<>>
    /\ listing = NoListing
    /\ remote_output_path = 0
    /\ local_files = [t \in Targets |-> 0]
    /\ launcher = LauncherStart
    /\ dashboard = DashboardStart

Init ==
    /\ InitRun
    /\ \E c \in RunConfigs :
          /\ key_file = c.key_file
          /\ key_requires_password = c.key_requires_password
          /\ script_dir = c.script_dir
    /\ silent = [t \in Targets |-> FALSE]

(***************************************************************************)
(* Steps shared by the exit paths of one server's pipeline.                *)
(***************************************************************************)
\* the for loop moves on; the locals of the iteration are dead from here
NextServer ==
    /\ idx' = idx + 1
    /\ pc' = "loop"
    /\ private_key' = "none"
    /\ output' = <<>>
    /\ nrecv' = 0
    /\ wp_exit' = "none"
    /\ sudo_prompted' = FALSE
    /\ script_completed' = FALSE
    /\ remote_output_path' = 0
    /\ sent' = <<>>

\* print the error, servers_failed += 1, continue
FailAndContinue ==
    /\ servers_failed' = servers_failed + 1
    /\ counted' = [counted EXCEPT ![idx].failed = @ + 1]
    /\ servers_successful' = servers_successful
    /\ NextServer

\* ssh.close(): closes the transport the client holds, and its channels with it
SshClose ==
    /\ transports' = transports \ {ssh_transport}
    /\ channels' = channels \ {ssh_transport}
    /\ sftps' = sftps \ {ssh_transport}
    /\ ssh_transport' = 0

(***************************************************************************)
(* Before the loop.                                                        *)
(***************************************************************************)
CheckKeyFile ==
    /\ pc = "check_key"
    /\ pc' = IF key_file.exists THEN "getpass" ELSE "aborted"
    /\ UNCHANGED <<idx, config, frontend, scripted, secrets, private_key, counters, waitvars, sudovars,
                   sent, counted, attempts, sessions, artifact>>

GetPasswords ==
    /\ pc = "getpass"
    /\ IF key_requires_password
       THEN /\ key_password' \in {"empty", "secret"}
            /\ asked' = asked + 2
       ELSE /\ key_password' = "None"
            /\ asked' = asked + 1
    /\ sudo_password' = "secret"
    /\ pc' = "loop"
    /\ UNCHANGED <<idx, config, frontend, scripted, private_key, counters, waitvars, sudovars,
                   sent, counted, attempts, sessions, artifact>>

(***************************************************************************)
(* The loop over the servers.                                              *)
(***************************************************************************)
\* the loop with the sudo password asked for inside it, per server
LoopNext_AsksAgain ==
    /\ pc = "loop"
    /\ pc' = IF idx <= NumTargets THEN "load_key" ELSE "cleanup"
    /\ asked' = IF idx <= NumTargets THEN asked + 1 ELSE asked
    /\ UNCHANGED <<idx, config, frontend, scripted, key_password, sudo_password, private_key, counters,
                   waitvars, sudovars, sent, counted, attempts, sessions, artifact>>

LoopNext ==
    /\ pc = "loop"
    /\ pc' = IF idx <= NumTargets THEN "load_key" ELSE "cleanup"
    /\ UNCHANGED <<idx, config, frontend, scripted, secrets, private_key, counters, waitvars, sudovars,
                   sent, counted, attempts, sessions, artifact>>

LoadKey ==
    /\ pc = "load_key"
    /\ LET k == LoadPrivateKey(key_file, key_password)
       IN  /\ private_key' = k
           /\ pc' = IF k = "none" THEN "aborted" ELSE "connect"
    /\ UNCHANGED <<idx, config, frontend, scripted, secrets, counters, waitvars, sudovars,
                   sent, counted, attempts, sessions, artifact>>

ConnectOk ==
    /\ pc = "connect"
    /\ connects' = [connects EXCEPT ![idx] = @ + 1]
    /\ connect_result' = [connect_result EXCEPT ![idx] = "ok"]
    /\ transports' = transports \cup {idx}
    /\ ssh_transport' = idx
    /\ pc' = "invoke_shell"
    /\ UNCHANGED <<idx, config, frontend, scripted, secrets, private_key, counters, waitvars, sudovars,
                   sent, counted, channels, sftps, artifact>>

ConnectPasswordRequired ==
    /\ pc = "connect"
    /\ connects' = [connects EXCEPT ![idx] = @ + 1]
    /\ connect_result' = [connect_result EXCEPT ![idx] = "password_required"]
    /\ pc' = "aborted"
    /\ UNCHANGED <<idx, config, frontend, scripted, secrets, private_key, counters, waitvars, sudovars,
                   sent, counted, sessions, artifact>>

\* a handler of the connect error that moves on to the next server and leaves
\* servers_failed as it is
ConnectError_NotCounted ==
    /\ pc = "connect"
    /\ connects' = [connects EXCEPT ![idx] = @ + 1]
    /\ connect_result' = [connect_result EXCEPT ![idx] = "error"]
    /\ NextServer
    /\ UNCHANGED <<config, frontend, scripted, secrets, counters, counted, sessions,
                   local_files>>

\* a handler of the connect error that counts the failure and tries the same
\* server again
ConnectError_Retry ==
    /\ pc = "connect"
    /\ connects' = [connects EXCEPT ![idx] = @ + 1]
    /\ connect_result' = [connect_result EXCEPT ![idx] = "error"]
    /\ servers_failed' = servers_failed + 1
    /\ counted' = [counted EXCEPT ![idx].failed = @ + 1]
    /\ pc' = "load_key"
    /\ UNCHANGED <<idx, config, frontend, scripted, secrets, private_key, servers_successful,
                   waitvars, sudovars, sent, sessions, artifact>>

\* except Exception: print, servers_failed += 1, continue
ConnectError ==
    /\ pc = "connect"
    /\ connects' = [connects EXCEPT ![idx] = @ + 1]
    /\ connect_result' = [connect_result EXCEPT ![idx] = "error"]
    /\ FailAndContinue
    /\ UNCHANGED <<config, frontend, scripted, secrets, sessions, local_files>>

InvokeShell ==
    /\ pc = "invoke_shell"
    /\ channels' = channels \cup {idx}
    /\ pc' = "wait_initial"
    /\ UNCHANGED <<idx, config, frontend, scripted, secrets, private_key, counters, waitvars, sudovars,
                   sent, counted, attempts, transports, sftps, ssh_transport,
                   artifact>>

(***************************************************************************)
(* wait_for_prompt.                                                        *)
(***************************************************************************)
WaitPcs == {"wait_initial", "wait_cd", "wait_chmod"}
WaitRet ==
    [wait_initial |-> "ret_initial", wait_cd |-> "ret_cd", wait_chmod |-> "ret_chmod"]

\* what the loop body decides after a chunk was appended: return because a shell
\* prompt pattern matched, return because a login/password prompt matched, or go on
PromptVerdict(buf) ==
    IF ShellPromptMatch(buf) THEN "prompt"
    ELSE IF AuthPromptMatch(buf) THEN "credential"
    ELSE "none"

\* channel.recv_ready(): chunk is read, appended and the buffer examined
WaitStep(w, chunk) ==
    LET out == output \o chunk
        v == PromptVerdict(out)
    IN  /\ output' = out
        /\ nrecv' = nrecv + 1
        /\ wp_exit' = v
        /\ pc' = IF v = "none" THEN w ELSE WaitRet[w]

\* in a run of the batch the channel delivers whatever the server writes
WaitRecv(w) ==
    /\ pc = w
    /\ nrecv < MaxChunks
    /\ \E chunk \in ChunkSet :
          /\ silent[idx] => ~ShellPromptMatch(output \o chunk)
          /\ WaitStep(w, chunk)
    /\ UNCHANGED <<idx, config, frontend, scripted, secrets, private_key, counters, sudovars,
                   sent, counted, attempts, sessions, artifact>>

\* the while condition fails: the timeout warning, return output
WaitTimeout(w) ==
    /\ pc = w
    /\ wp_exit' = "timeout"
    /\ pc' = WaitRet[w]
    /\ UNCHANGED <<idx, config, frontend, scripted, secrets, private_key, counters, output, nrecv,
                   sudovars, sent, counted, attempts, sessions, artifact>>

(***************************************************************************)
(* The command sequence on the interactive channel.                        *)
(***************************************************************************)
RetPcs == {"ret_initial", "ret_cd", "ret_chmod"}
AfterPrompt(r) ==
    CASE r = "ret_initial" -> IF script_dir THEN "send_cd" ELSE "send_chmod"
      [] r = "ret_cd" -> "send_chmod"
      [] r = "ret_chmod" -> "send_sudo"

\* if not output: ... servers_failed += 1; continue
CheckPrompt(r) ==
    /\ pc = r
    /\ IF output = <<>>
       THEN /\ FailAndContinue
            /\ UNCHANGED <<config, frontend, scripted, secrets, attempts, sessions,
                           local_files>>
       ELSE /\ pc' = AfterPrompt(r)
            /\ UNCHANGED <<idx, config, frontend, scripted, secrets, private_key, counters, waitvars,
                           sudovars, sent, counted, attempts, sessions,
                           artifact>>

Send(what) == sent' = Append(sent, what)

SendCd ==
    /\ pc = "send_cd"
    /\ Send("cd")
    /\ output' = <<>>
    /\ nrecv' = 0
    /\ wp_exit' = "none"
    /\ pc' = "wait_cd"
    /\ UNCHANGED <<idx, config, frontend, scripted, secrets, private_key, counters, sudovars, counted,
                   attempts, sessions, artifact>>

\* chmod is sent, after the sudo password when the wait before it returned with
\* a login/password prompt in the buffer
SendChmod_AnswersPrompt ==
    /\ pc = "send_chmod"
    /\ sent' = IF AuthPromptMatch(output) THEN sent \o <<"password", "chmod">>
               ELSE Append(sent, "chmod")
    /\ output' = <<>>
    /\ nrecv' = 0
    /\ wp_exit' = "none"
    /\ pc' = "wait_chmod"
    /\ UNCHANGED <<idx, config, frontend, scripted, secrets, private_key, counters, sudovars, counted,
                   attempts, sessions, artifact>>

SendChmod ==
    /\ pc = "send_chmod"
    /\ Send("chmod")
    /\ output' = <<>>
    /\ nrecv' = 0
    /\ wp_exit' = "none"
    /\ pc' = "wait_chmod"
    /\ UNCHANGED <<idx, config, frontend, scripted, secrets, private_key, counters, sudovars, counted,
                   attempts, sessions, artifact>>

SendSudo ==
    /\ pc = "send_sudo"
    /\ Send("sudo")
    /\ output' = <<>>
    /\ nrecv' = 0
    /\ wp_exit' = "none"
    /\ sudo_prompted' = FALSE
    /\ script_completed' = FALSE
    /\ pc' = "completion"
    /\ UNCHANGED <<idx, config, frontend, scripted, secrets, private_key, counters, counted,
                   attempts, sessions, artifact>>

(***************************************************************************)
(* The sudo password / completion loop.                                    *)
(***************************************************************************)
ShouldSendPassword_Unguarded(buf, prompted) == SudoPromptSeen(buf)

\* the same test on output instead of output.lower()
ShouldSendPassword_CaseSensitive(buf, prompted) ==
    (Contains(buf, PasswordFor) \/ Contains(buf, PasswordColon)) /\ ~prompted

\* (b'password for' in output.lower() or b'password:' in output.lower())
\*    and not sudo_prompted
ShouldSendPassword(buf, prompted) == SudoPromptSeen(buf) /\ ~prompted

\* the loop body with the flag cleared, not set, when the password is sent
CompletionRecv_ClearsFlag ==
    /\ pc = "completion"
    /\ nrecv < MaxChunks
    /\ \E chunk \in ChunkSet :
          LET out == output \o chunk
              inject == ShouldSendPassword(out, sudo_prompted)
          IN  /\ output' = IF CompletionSeen(out) THEN <<>> ELSE out
              /\ nrecv' = IF CompletionSeen(out) THEN 0 ELSE nrecv + 1
              /\ sent' = IF inject THEN Append(sent, "password")
                         ELSE sent
              /\ sudo_prompted' = IF inject THEN FALSE ELSE sudo_prompted
              /\ script_completed' = CompletionSeen(out)
              /\ pc' = IF CompletionSeen(out) THEN "open_sftp" ELSE "completion"
    /\ UNCHANGED <<idx, config, frontend, scripted, secrets, private_key, counters, wp_exit, counted,
                   attempts, sessions, artifact>>

\* a chunk is read inside the loop (the buffer is not read again once the loop
\* is left by a completion marker, and is dropped from the state there)
CompletionRecv ==
    /\ pc = "completion"
    /\ nrecv < MaxChunks
    /\ \E chunk \in ChunkSet :
          LET out == output \o chunk
              inject == ShouldSendPassword(out, sudo_prompted)
          IN  /\ output' = IF CompletionSeen(out) THEN <<>> ELSE out
              /\ nrecv' = IF CompletionSeen(out) THEN 0 ELSE nrecv + 1
              /\ sent' = IF inject THEN Append(sent, "password")
                         ELSE sent
              /\ sudo_prompted' = IF inject THEN TRUE ELSE sudo_prompted
              /\ script_completed' = CompletionSeen(out)
              /\ pc' = IF CompletionSeen(out) THEN "open_sftp" ELSE "completion"
    /\ UNCHANGED <<idx, config, frontend, scripted, secrets, private_key, counters, wp_exit, counted,
                   attempts, sessions, artifact>>

\* max_wait_time passes without a completion marker, and the pipeline goes on
\* to the download all the same
CompletionTimeout_Proceeds ==
    /\ pc = "completion"
    /\ pc' = "open_sftp"
    /\ UNCHANGED <<idx, config, frontend, scripted, secrets, private_key, counters, waitvars, sudovars,
                   sent, counted, attempts, sessions, artifact>>

\* max_wait_time passes without a completion marker: the server is failed
CompletionTimeout ==
    /\ pc = "completion"
    /\ FailAndContinue
    /\ UNCHANGED <<config, frontend, scripted, secrets, attempts, sessions, local_files>>

(***************************************************************************)
(* Search for the output file, download, close.                            *)
(***************************************************************************)
OpenSftp ==
    /\ pc = "open_sftp"
    /\ sftps' = sftps \cup {idx}
    /\ pc' = "locate"
    /\ UNCHANGED <<idx, config, frontend, scripted, secrets, private_key, counters, waitvars, sudovars,
                   sent, counted, attempts, transports, channels,
                   ssh_transport, artifact>>

\* the for loop over output_patterns: the first pattern whose search command
\* prints a path wins; a search that raises is skipped (raises[p])
LocateResult(l, raises) ==
    IF ~raises[1] /\ FindCmd(l, output_patterns[1]) # 0
    THEN FindCmd(l, output_patterns[1])
    ELSE IF ~raises[2] /\ FindCmd(l, output_patterns[2]) # 0
    THEN FindCmd(l, output_patterns[2])
    ELSE 0

\* the search and the test that follows it, on remote directory l
LocateStep(l, raises) ==
    LET path == LocateResult(l, raises)
    IN  IF path = 0
        THEN /\ FailAndContinue
             /\ UNCHANGED local_files
        ELSE /\ remote_output_path' = path
             /\ pc' = "download"
             /\ UNCHANGED <<idx, private_key, counters, waitvars, sudovars,
                            sent, counted, local_files>>

\* in a run of the batch the remote directory is whatever the server holds
Locate ==
    /\ pc = "locate"
    /\ \E l \in Listings, raises \in [1..2 -> BOOLEAN] : LocateStep(l, raises)
    /\ UNCHANGED <<config, frontend, scripted, secrets, attempts, sessions>>

\* local file contents: no file, the bytes of the remote file at
\* remote_output_path, or an empty or partial file (sftp.get opens the local
\* file for writing before it reads the remote one)
NoFile == 0
Copied == 1
Truncated == 2

DownloadOk ==
    /\ pc = "download"
    /\ local_files' = [local_files EXCEPT ![idx] = Copied]
    /\ servers_successful' = servers_successful + 1
    /\ counted' = [counted EXCEPT ![idx].ok = @ + 1]
    /\ pc' = "close"
    /\ remote_output_path' = 0
    /\ UNCHANGED <<idx, config, frontend, scripted, secrets, private_key, servers_failed, waitvars,
                   sudovars, sent, attempts, sessions>>

\* FileNotFoundError or another exception of sftp.get
DownloadError ==
    /\ pc = "download"
    /\ local_files' \in {local_files, [local_files EXCEPT ![idx] = Truncated]}
    /\ servers_failed' = servers_failed + 1
    /\ counted' = [counted EXCEPT ![idx].failed = @ + 1]
    /\ pc' = "close"
    /\ remote_output_path' = 0
    /\ UNCHANGED <<idx, config, frontend, scripted, secrets, private_key, servers_successful, waitvars,
                   sudovars, sent, attempts, sessions>>

\* channel.close(); sftp.close(); ssh.close()
CloseConnections ==
    /\ pc = "close"
    /\ SshClose
    /\ NextServer
    /\ UNCHANGED <<config, frontend, scripted, secrets, counters, counted, attempts,
                   local_files>>

\* except Exception: servers_failed += 1; ssh.close()
Handler ==
    /\ FailAndContinue
    /\ SshClose
    /\ UNCHANGED <<config, frontend, scripted, secrets, attempts, local_files>>

\* one of the three close calls raises
CloseRaises ==
    /\ pc = "close"
    /\ Handler

\* a call on the session raises inside the try block
TryPcs ==
    {"invoke_shell", "wait_initial", "wait_cd", "wait_chmod", "send_cd", "send_chmod",
     "send_sudo", "completion", "open_sftp"}

UnexpectedError ==
    /\ pc \in TryPcs
    /\ Handler

(***************************************************************************)
(* After the loop.                                                         *)
(***************************************************************************)
\* del sudo_password; if key_password: del key_password; print the summary
CleanupAndSummary ==
    /\ pc = "cleanup"
    /\ sudo_password' = "unbound"
    /\ key_password' = IF key_password = "secret" THEN "unbound" ELSE key_password
    /\ pc' = "done"
    /\ UNCHANGED <<idx, config, frontend, scripted, asked, private_key, counters, waitvars, sudovars,
                   sent, counted, attempts, sessions, artifact>>

Next ==
    \/ CheckKeyFile
    \/ GetPasswords
    \/ LoopNext
    \/ LoadKey
    \/ ConnectOk
    \/ ConnectPasswordRequired
    \/ ConnectError
    \/ InvokeShell
    \/ \E w \in WaitPcs : WaitRecv(w)
    \/ \E w \in WaitPcs : WaitTimeout(w)
    \/ \E r \in RetPcs : CheckPrompt(r)
    \/ SendCd
    \/ SendChmod
    \/ SendSudo
    \/ CompletionRecv
    \/ CompletionTimeout
    \/ OpenSftp
    \/ Locate
    \/ DownloadOk
    \/ DownloadError
    \/ CloseConnections
    \/ CloseRaises
    \/ UnexpectedError
    \/ CleanupAndSummary

Spec == Init /\ [][Next]_vars

(***************************************************************************)
(* wait_for_prompt on a scripted channel: the text a server writes reaches *)
(* the detector cut into chunks at arbitrary places.                       *)
(***************************************************************************)
MaxPieces == 2

\* prompts of the kinds the comments of prompt_patterns name: bash, root, zsh,
\* bracketed user@host
PromptTexts ==
    { <<"h", "$", " ">>,
      <<"h", "#", " ">>,
      <<"h", "%">>,
      <<"[", "u", "@", "h", " ", "d", "]", "$", " ">>,
      <<"[", "u", "@", "h", " ", "d", "]", "#", " ">> }

\* other things a server writes: authentication prompts, a login banner, a
\* Windows prompt, a home-directory prompt, plain text
OtherTexts ==
    { <<"P", "a", "s", "s", "w", "o", "r", "d", ":">>,
      <<"L", "a", "s", "t", " ", "l", "o", "g", "i", "n", ":">>,
      <<"C", ":", "\\", "x", ">">>,
      <<"~", "$", " ">>,
      <<"h", "i">> }

\* the ways to cut text into at most k non-empty chunks
RECURSIVE Splits(_, _)
Splits(text, k) ==
    IF text = <<>> THEN {<<>>}
    ELSE IF k <= 1 THEN {<<text>>}
    ELSE {<<text>>} \cup
         UNION { { <<SubSeq(text, 1, i)>> \o rest :
                     rest \in Splits(SubSeq(text, i + 1, Len(text)), k - 1) } :
                 i \in 1..(Len(text) - 1) }

DetectorFeeds == UNION { Splits(text, MaxPieces) : text \in PromptTexts \cup OtherTexts }

RECURSIVE Concat(_)
Concat(chunks) == IF chunks = <<>> THEN <<>> ELSE Head(chunks) \o Concat(Tail(chunks))

\* the state of a run (RSA key without passphrase, script in a directory) that
\* has connected to the first server and stands at position p of its pipeline
MidRun(p) ==
    /\ pc = p
    /\ conf = ValidConfig
    /\ idx = 1
    /\ key_file = [exists |-> TRUE, format |-> "RSAKey", encrypted |-> FALSE]
    /\ key_requires_password = FALSE
    /\ script_dir = TRUE
    /\ key_password = "None"
    /\ sudo_password = "secret"
    /\ asked = 1
    /\ private_key = "RSAKey"
    /\ servers_successful = 0
    /\ servers_failed = 0
    /\ output = <<>>
    /\ nrecv = 0
    /\ wp_exit = "none"
    /\ counted = [t \in Targets |-> [ok |-> 0, failed |-> 0]]
    /\ silent = [t \in Targets |-> FALSE]
    /\ connects = [t \in Targets |-> IF t = 1 THEN 1 ELSE 0]
    /\ connect_result = [t \in Targets |-> IF t = 1 THEN "ok" ELSE "none"]
    /\ transports = {1}
    /\ channels = {1}
    /\ ssh_transport = 1
    /\ remote_output_path = 0
    /\ local_files = [t \in Targets |-> NoFile]
    /\ launcher = LauncherStart
    /\ dashboard = DashboardStart

InitDetector ==
    /\ MidRun("wait_initial")
    /\ sent = <<>>
    /\ sudo_prompted = FALSE
    /\ script_completed = FALSE
    /\ sftps = {}
    /\ listing = NoListing
    /\ feed \in DetectorFeeds

\* the next chunk of the script is ready on the channel
ScriptedRecv ==
    /\ pc = "wait_initial"
    /\ feed # <<>>
    /\ WaitStep("wait_initial", Head(feed))
    /\ feed' = Tail(feed)
    /\ UNCHANGED <<idx, config, frontend, listing, secrets, private_key, counters, sudovars,
                   sent, counted, attempts, sessions, artifact>>

NextDetector ==
    \/ ScriptedRecv
    \/ WaitTimeout("wait_initial")
    \/ CheckPrompt("ret_initial")

SpecDetector == InitDetector /\ [][NextDetector]_vars

(***************************************************************************)
(* The search for the output file on a given remote directory.             *)
(***************************************************************************)
InitLocator ==
    /\ MidRun("locate")
    /\ sent = <<"cd", "chmod", "sudo", "password">>
    /\ sudo_prompted = TRUE
    /\ script_completed = TRUE
    /\ sftps = {1}
    /\ feed = <<>>
    /\ listing \in Listings

\* the scripted search: both search commands run without an exception
LocateOn ==
    /\ pc = "locate"
    /\ LocateStep(listing, [p \in 1..2 |-> FALSE])
    /\ UNCHANGED <<config, frontend, scripted, secrets, attempts, sessions>>

NextLocator ==
    \/ LocateOn
    \/ DownloadOk
    \/ DownloadError

SpecLocator == InitLocator /\ [][NextLocator]_vars

(***************************************************************************)
(* The end-to-end scenario: a run over the servers, one of which has a     *)
(* shell that never writes a shell prompt.                                 *)
(***************************************************************************)
InitEndToEnd ==
    /\ InitRun
    /\ key_file = [exists |-> TRUE, format |-> "RSAKey", encrypted |-> FALSE]
    /\ key_requires_password = FALSE
    /\ script_dir \in BOOLEAN
    /\ \E b \in Targets : silent = [t \in Targets |-> t = b]

SpecEndToEnd == InitEndToEnd /\ [][Next]_vars

(***************************************************************************)
(* The whole process: main() reads and validates the configuration file    *)
(* before the batch, and the operator may interrupt the batch (Ctrl-C).    *)
(***************************************************************************)
\* read_config: sys.exit(1) when there is no file at config_path
ReadConfig ==
    /\ pc = "read_config"
    /\ pc' = IF conf.exists THEN "validate" ELSE "aborted"
    /\ UNCHANGED <<idx, config, frontend, scripted, secrets, private_key, counters, waitvars, sudovars,
                   sent, counted, attempts, sessions, artifact>>

\* validate_config(config), then execute_remote_script_and_fetch_output(config)
ValidateConfig ==
    /\ pc = "validate"
    /\ pc' = IF validate_config(conf) THEN "check_key" ELSE "aborted"
    /\ UNCHANGED <<idx, config, frontend, scripted, secrets, private_key, counters, waitvars, sudovars,
                   sent, counted, attempts, sessions, artifact>>

\* the positions of one server's pipeline, from the loading of the key to the
\* close calls
PipelinePcs ==
    {"load_key", "connect", "locate", "download", "close"} \cup TryPcs \cup RetPcs

\* KeyboardInterrupt is raised in the main thread: it is no Exception, so
\* neither the handler of the try block nor any other except clause on the way
\* catches it, and the interpreter exits with the traceback
Interrupt ==
    /\ pc \in PipelinePcs
    /\ pc' = "interrupted"
    /\ UNCHANGED <<idx, config, frontend, scripted, secrets, private_key, counters, waitvars, sudovars,
                   sent, counted, attempts, sessions, artifact>>

InitProcess ==
    /\ pc = "read_config"
    /\ conf \in ConfigFiles
    /\ idx = 1
    /\ key_file = [exists |-> TRUE, format |-> "RSAKey", encrypted |-> FALSE]
    /\ key_requires_password = FALSE
    /\ script_dir = TRUE
    /\ silent = [t \in Targets |-> FALSE]
    /\ key_password = "None"
    /\ sudo_password = "unbound"
    /\ asked = 0
    /\ private_key = "none"
    /\ servers_successful = 0
    /\ servers_failed = 0
    /\ output = <<>>
    /\ nrecv = 0
    /\ wp_exit = "none"
    /\ sudo_prompted = FALSE
    /\ script_completed = FALSE
    /\ sent = <<>>
    /\ counted = [t \in Targets |-> [ok |-> 0, failed |-> 0]]
    /\ connects = [t \in Targets |-> 0]
    /\ connect_result = [t \in Targets |-> "none"]
    /\ transports = {}
    /\ channels = {}
    /\ sftps = {}
    /\ ssh_transport = 0
    /\ feed = <<>>
    /\ listing = NoListing
    /\ remote_output_path = 0
    /\ local_files = [t \in Targets |-> NoFile]
    /\ launcher = LauncherStart
    /\ dashboard = DashboardStart

NextProcess ==
    \/ ReadConfig
    \/ ValidateConfig
    \/ Interrupt
    \/ Next

SpecProcess == InitProcess /\ [][NextProcess]_vars

(***************************************************************************)
(* Progress.  Every step of the batch is taken in bounded time, by the     *)
(* program itself or because the call it waits in has a timeout (connect:  *)
(* timeout=10; wait_for_prompt: 20 s; the completion loop: max_wait_time), *)
(* with two exceptions: stdout.read() on the channel of the search command *)
(* and sftp.get are made without a timeout and return only when the server *)
(* answers.                                                                *)
(***************************************************************************)
UnboundedPcs == {"locate", "download"}

BoundedStep == pc \notin UnboundedPcs /\ Next

SpecLive == Init /\ [][Next]_vars /\ WF_vars(BoundedStep)

(***************************************************************************)
(* The loading of the key, for every key file and both settings of         *)
(* key_requires_password: the run up to the connection attempts.           *)
(***************************************************************************)
InitKeys ==
    /\ InitRun
    /\ key_file \in KeyFiles
    /\ key_requires_password \in BOOLEAN
    /\ script_dir = TRUE
    /\ silent = [t \in Targets |-> FALSE]

NextKeys ==
    \/ CheckKeyFile
    \/ GetPasswords
    \/ LoopNext
    \/ LoadKey
    \/ ConnectError
    \/ ConnectPasswordRequired
    \/ CleanupAndSummary

SpecKeys == InitKeys /\ [][NextKeys]_vars

(***************************************************************************)
(* The launcher (launch_ceph_dashboard.py).  main() checks that app.py is  *)
(* there, runs fetch_ceph_data.py as a child process and waits for it      *)
(* (subprocess.run), asks the operator when the child failed, then starts  *)
(* the web application (subprocess.Popen) and waits for it.  The child is  *)
(* the process modelled above: while the launcher waits in subprocess.run  *)
(* the steps of NextProcess are the child's, and its exit status is 0      *)
(* exactly when it returns from main (pc = "done").  The port and the host *)
(* name only decide the arguments of the web application and are left out, *)
(* except that resolving the host name can raise.                          *)
(***************************************************************************)
\* what the operator can type at the (y/n) question; input() drops the newline
Responses ==
    { <<"y">>, <<"Y">>, <<" ", "y", " ">>, <<"n">>, <<>>, <<"y", "e", "s">> }

RECURSIVE LStrip(_)
LStrip(s) == IF s # <<>> /\ Head(s) \in Whitespace THEN LStrip(Tail(s)) ELSE s

RECURSIVE RStrip(_)
RStrip(s) ==
    IF s # <<>> /\ s[Len(s)] \in Whitespace THEN RStrip(SubSeq(s, 1, Len(s) - 1)) ELSE s

\* str.strip()
Strip(s) == RStrip(LStrip(s))

\* the child process is over: main returned, sys.exit(1), or the traceback
\* of a KeyboardInterrupt
Terminated == pc \in {"done", "aborted", "interrupted"}

collector ==
    <<pc, idx, conf, key_file, key_requires_password, script_dir, silent, scripted, secrets,
      private_key, counters, waitvars, sudovars, sent, counted, attempts, sessions, artifact>>

Exit(st) == [launcher EXCEPT !.pc = "exit", !.status = st]

\* if not os.path.exists("app.py"): return 1
CheckAppFile ==
    /\ launcher.pc = "main"
    /\ \E exists \in BOOLEAN :
          launcher' = IF exists THEN [launcher EXCEPT !.pc = "fetch_data"] ELSE Exit("return 1")
    /\ UNCHANGED <<collector, dashboard>>

\* subprocess.run([sys.executable, "fetch_ceph_data.py"], check=True) starts
\* the child and waits for it
RunFetch ==
    /\ launcher.pc = "fetch_data"
    /\ launcher' = [launcher EXCEPT !.pc = "subprocess", !.child = "started"]
    /\ UNCHANGED <<collector, dashboard>>

\* the child cannot be started.  FileNotFoundError is caught: fetch_data
\* returns False; any other OSError leaves main() as a traceback
RunFetchRaises ==
    /\ launcher.pc = "fetch_data"
    /\ \E caught \in BOOLEAN :
          launcher' = IF caught
                      THEN [launcher EXCEPT !.pc = "ask", !.fetch_success = "False"]
                      ELSE Exit("traceback")
    /\ UNCHANGED <<collector, dashboard>>

\* subprocess.run returns when the child is over; check=True raises
\* CalledProcessError on a non-zero exit status, and fetch_data returns False
FetchReturns ==
    /\ launcher.pc = "subprocess"
    /\ Terminated
    /\ launcher' = IF pc = "done"
                   THEN [launcher EXCEPT !.pc = "prepare", !.fetch_success = "True"]
                   ELSE [launcher EXCEPT !.pc = "ask", !.fetch_success = "False"]
    /\ UNCHANGED <<collector, dashboard>>

\* the web application is launched whatever the operator types
AskContinue_Anyway ==
    /\ launcher.pc = "ask"
    /\ \E typed \in Responses :
          launcher' = [launcher EXCEPT !.typed = typed, !.response = Lower(Strip(typed)),
                                       !.pc = "prepare"]
    /\ UNCHANGED <<collector, dashboard>>

\* response = input().strip().lower(); if response != 'y': return 1
AskContinue ==
    /\ launcher.pc = "ask"
    /\ \E typed \in Responses :
          LET response == Lower(Strip(typed))
              asked_ == [launcher EXCEPT !.typed = typed, !.response = response]
          IN  launcher' = IF response # <<"y">>
                          THEN [asked_ EXCEPT !.pc = "exit", !.status = "return 1"]
                          ELSE [asked_ EXCEPT !.pc = "prepare"]
    /\ UNCHANGED <<collector, dashboard>>

\* the port check (an OSError there is caught), then
\* socket.gethostbyname(socket.gethostname()), which can raise
PrepareLaunch ==
    /\ launcher.pc = "prepare"
    /\ \E resolved \in BOOLEAN :
          launcher' = IF resolved THEN [launcher EXCEPT !.pc = "launch"] ELSE Exit("traceback")
    /\ UNCHANGED <<collector, dashboard>>

\* app_process = launch_webapp(port, host, debug): subprocess.Popen
LaunchWebapp ==
    /\ launcher.pc = "launch"
    /\ launcher' = [launcher EXCEPT !.pc = "poll", !.app_process = "running"]
    /\ UNCHANGED <<collector, dashboard>>

\* time.sleep(2); if app_process.poll() is not None: return 1
PollWebapp ==
    /\ launcher.pc = "poll"
    /\ \E alive \in BOOLEAN :
          launcher' = IF alive
                      THEN [launcher EXCEPT !.pc = "wait"]
                      ELSE [launcher EXCEPT !.pc = "exit", !.app_process = "exited",
                                            !.status = "return 1"]
    /\ UNCHANGED <<collector, dashboard>>

\* app_process.wait() returns, or Ctrl+C and app_process.terminate(); return 0
WaitWebapp ==
    /\ launcher.pc = "wait"
    /\ launcher' = [launcher EXCEPT !.pc = "exit", !.app_process = "exited",
                                    !.status = "return 0"]
    /\ UNCHANGED <<collector, dashboard>>

\* the steps of the child while subprocess.run waits
ChildStep ==
    /\ launcher.pc = "subprocess"
    /\ NextProcess

NextLauncher ==
    \/ CheckAppFile
    \/ RunFetch
    \/ RunFetchRaises
    \/ ChildStep
    \/ FetchReturns
    \/ AskContinue
    \/ PrepareLaunch
    \/ LaunchWebapp
    \/ PollWebapp
    \/ WaitWebapp

SpecLauncher == InitProcess /\ [][NextLauncher]_vars

(***************************************************************************)
(* The dashboard (app.py) and the output directory it shares with the      *)
(* collector.  A file of the directory is known by its path; what the      *)
(* dashboard returns for a file is the path it parsed and the server name  *)
(* it derived from the path.                                               *)
(***************************************************************************)
\* names of [servers] entries: 'a', 'b', 'ab', 'a.md', 'a.mdb' and
\* 'ceph-details-output-b'
TargetNames ==
    { <<"a">>, <<"b">>, <<"a", "b">>, <<"a", ".", "m", "d">>, <<"a", ".", "m", "d", "b">>,
      CephDetailsOutput \o <<"-", "b">> }

\* <server_name> of a request: a name that may have been collected, or 'md'
Requests == TargetNames \cup { <<"m", "d">> }

\* the directory 'output' of the project, as both programs name it
OutputDir == <<"o", "u", "t", "p", "u", "t", "/">>

\* local_file = output_dir / f"ceph-details-output-{server_name}.md"
LocalFile(server_name) ==
    OutputDir \o CephDetailsOutput \o <<"-">> \o server_name \o <<".", "m", "d">>

\* os.path.basename
Basename(path) ==
    LET slashes == {i \in 1..Len(path) : path[i] = "/"}
    IN  IF slashes = {} THEN path
        ELSE SubSeq(path, (CHOOSE i \in slashes : \A j \in slashes : j <= i) + 1, Len(path))

\* str.replace(old, new): every occurrence of old, leftmost first, not overlapping
RECURSIVE Replace(_, _, _)
Replace(s, old, new) ==
    IF Len(s) < Len(old) THEN s
    ELSE IF SubSeq(s, 1, Len(old)) = old
         THEN new \o Replace(SubSeq(s, Len(old) + 1, Len(s)), old, new)
         ELSE <<Head(s)>> \o Replace(Tail(s), old, new)

\* os.path.basename(file_path).replace('ceph-details-output-', '').replace('.md', '')
ServerNameOf(file_path) ==
    Replace(Replace(Basename(file_path), CephDetailsOutput \o <<"-">>, <<>>),
            <<".", "m", "d">>, <<>>)

\* the parsed data of a file: the sections of its content, and the server name
parse_output_file(file_path) ==
    [file_path |-> file_path, server_name |-> ServerNameOf(file_path)]

\* sorted(): ascending
RECURSIVE Sorted(_)
Sorted(paths) ==
    IF paths = {} THEN <<>>
    ELSE LET first == CHOOSE x \in paths : \A y \in paths \ {x} : LexLess(x, y)
         IN  <<first>> \o Sorted(paths \ {first})

\* sorted(glob.glob(output/ceph-details-output-*.md)): every file the
\* collector wrote matches the pattern
find_output_files(collected) == Sorted({LocalFile(n) : n \in collected})

\* the first file whose path contains server_name ('server_name in file_path')
\* (0: None)
FirstContaining(files, server_name) ==
    LET hits == {i \in 1..Len(files) : Contains(files[i], server_name)}
    IN  IF hits = {} THEN 0 ELSE CHOOSE i \in hits : \A j \in hits : i <= j

\* the collector's sftp.get writes the local file of a server
Collect ==
    /\ \E n \in TargetNames :
          dashboard' = [dashboard EXCEPT !.collected = @ \cup {n}]
    /\ UNCHANGED <<collector, launcher>>

\* GET /api/servers
api_servers ==
    /\ LET output_files == find_output_files(dashboard.collected)
       IN  dashboard' = [dashboard EXCEPT
               !.server_name = <<>>,
               !.response = [kind |-> "servers",
                             data |-> [i \in 1..Len(output_files) |->
                                          parse_output_file(output_files[i])]]]
    /\ UNCHANGED <<collector, launcher>>

\* GET /api/server/<server_name>
api_server ==
    /\ \E server_name \in Requests :
          LET output_files == find_output_files(dashboard.collected)
              server_file == FirstContaining(output_files, server_name)
          IN  dashboard' = [dashboard EXCEPT
                  !.server_name = server_name,
                  !.response = IF server_file # 0
                               THEN [kind |-> "server",
                                     data |-> <<parse_output_file(output_files[server_file])>>]
                               ELSE [kind |-> "Server not found", data |-> <<>>]]
    /\ UNCHANGED <<collector, launcher>>

InitDashboard ==
    /\ InitRun
    /\ key_file = [exists |-> TRUE, format |-> "RSAKey", encrypted |-> FALSE]
    /\ key_requires_password = FALSE
    /\ script_dir = TRUE
    /\ silent = [t \in Targets |-> FALSE]

NextDashboard ==
    \/ Collect
    \/ api_servers
    \/ api_server

SpecDashboard == InitDashboard /\ [][NextDashboard]_vars

(***************************************************************************)
(* Properties.                                                             *)
(***************************************************************************)
SendPcs == {"send_cd", "send_chmod", "send_sudo"}

PasswordsSent == Cardinality({i \in 1..Len(sent) : sent[i] = "password"})

RECURSIVE SumFailed(_)
SumFailed(n) == IF n = 0 THEN 0 ELSE counted[n].failed + SumFailed(n - 1)

RECURSIVE SumOk(_)
SumOk(n) == IF n = 0 THEN 0 ELSE counted[n].ok + SumOk(n - 1)

PasswordChunk == <<"P", "a", "s", "s", "w", "o", "r", "d", ":">>

\* C1: on the channel of every server the sudo password is sent at most once,
\* whatever chunks arrive after 'sudo ./script' was sent, also when the
\* accumulated output shows a password prompt again in a later chunk.
C1_PasswordSentAtMostOnce == PasswordsSent <= 1

\* C1 witness: the password was sent, and a second chunk with a password
\* prompt has been received since.
C1_Witness ==
    /\ pc = "completion"
    /\ output = PasswordChunk \o PasswordChunk
    /\ sudo_prompted
    /\ PasswordsSent = 1

\* C2: a server whose connect call failed with an error other than "key requires
\* a passphrase" is counted as failed exactly once and not as successful (the
\* two counters being exactly the increments made per server), the loop moves
\* past it instead of aborting, and at the summary every later server has had
\* its own connect call.
C2_ConnectFailureIsolated ==
    /\ servers_failed = SumFailed(NumTargets)
    /\ servers_successful = SumOk(NumTargets)
    /\ \A t \in Targets :
          connect_result[t] = "error" =>
             /\ counted[t] = [ok |-> 0, failed |-> 1]
             /\ idx > t
             /\ \A u \in Targets : (u > t /\ idx > u) => connects[u] = 1
             /\ pc \in {"cleanup", "done"} =>
                   \A u \in Targets : u > t => connects[u] = 1

\* C2 witness: the first server's connect failed, the run reached its summary,
\* and the second server was connected to.
C2_Witness ==
    /\ pc = "done"
    /\ connect_result[1] = "error"
    /\ connect_result[2] = "ok"
    /\ servers_failed >= 1

\* C3: whenever the loop is about to start the next server, or the run is at its
\* summary, no transport, interactive channel or SFTP channel is open.
C3_SessionClosedOnEveryExit ==
    pc \in {"loop", "cleanup", "done"} =>
       transports = {} /\ channels = {} /\ sftps = {}

\* C4: after a prompt wait has ended by timeout, with or without partial
\* output, the pipeline never stands at the sending of the next command: the
\* only thing that follows the wait's return is the check that fails the server.
C4_PromptTimeoutFailsTarget == wp_exit = "timeout" => pc \in RetPcs

\* C5: in a run over two servers that has reached its summary, where one server
\* was processed without any failure and the shell of the other never wrote a
\* shell prompt, the summary is succeeded=1, failed=1 and the only local file
\* is the copy of the good server's output file.
C5_EndToEndOneGoodOneSilent ==
    (pc = "done" /\ NumTargets = 2) =>
       \A g, b \in Targets :
          ( /\ g # b
            /\ ~silent[g]
            /\ counted[g] = [ok |-> 1, failed |-> 0]
            /\ silent[b] ) =>
             /\ servers_successful = 1
             /\ servers_failed = 1
             /\ local_files[g] = Copied
             /\ local_files[b] = NoFile

\* C6: when wait_for_prompt has returned because of a login/password prompt, the
\* pipeline does not go on to send the next command as after a shell prompt.
C6_CredentialPromptNotReady == wp_exit = "credential" => pc \notin SendPcs

\* C7: when a shell prompt has arrived in two or more chunks and the last chunk
\* has been read, the detector has returned with a shell prompt detected.
C7_SplitPromptDetected ==
    (feed = <<>> /\ nrecv >= 2 /\ output \in PromptTexts) => wp_exit = "prompt"

\* C8: the file the search returns is, of all files in the window that match
\* the legacy name or the pattern, one with the most recent modification time.
Candidates(l) ==
    FindMatches(l, output_patterns[1]) \cup FindMatches(l, output_patterns[2])

C8_NewestCandidateFound ==
    pc = "download" =>
       \A f \in Candidates(listing) : listing[remote_output_path] <= listing[f]

\* C9: in every terminal state, the summary or a fatal exit, the sudo password
\* and the key passphrase are no longer held.
C9_SecretsDiscardedAtEnd ==
    pc \in {"done", "aborted"} =>
       sudo_password = "unbound" /\ key_password \in {"None", "unbound"}

\* C10: when a fatal error aborts the run, no server has been processed before
\* it: the loop is at the first server and nothing has been counted.
C10_FatalBeforeAnyTarget ==
    pc = "aborted" => (idx = 1 /\ servers_successful + servers_failed = 0)

\* C11: in a run whose configuration file lacks a required section or a
\* required key, or has no entry under [servers], no password is ever asked for
\* and no connection to a server is ever made.
LacksRequired(c) ==
    \/ \E i \in DOMAIN required_sections : required_sections[i] \notin c.sections
    \/ \E i \in DOMAIN required_ssh_options : required_ssh_options[i] \notin c.ssh
    \/ \E i \in DOMAIN required_paths_options : required_paths_options[i] \notin c.paths
    \/ c.servers = 0

C11_InvalidConfigExitsEarly ==
    LacksRequired(conf) => (asked = 0 /\ \A t \in Targets : connects[t] = 0)

\* C12 as claimed: when the script execution has been declared complete, exactly
\* one password has been sent on the server's channel.
C12_ExactlyOneInjection ==
    pc \in {"open_sftp", "locate", "download"} => PasswordsSent = 1

\* C12 as amended: at every point of the completion loop one password has been
\* sent if the accumulated output contains a password prompt pattern and none
\* otherwise; once execution is declared complete, one has been sent if a prompt
\* pattern was seen (sudo_prompted) and none otherwise.
C12_InjectionFollowsPrompt ==
    /\ pc = "completion" =>
          /\ sudo_prompted <=> SudoPromptSeen(output)
          /\ PasswordsSent = IF SudoPromptSeen(output) THEN 1 ELSE 0
    /\ pc \in {"open_sftp", "locate", "download"} =>
          PasswordsSent = IF sudo_prompted THEN 1 ELSE 0

C12_Witness ==
    pc = "open_sftp" /\ script_completed /\ sudo_prompted /\ PasswordsSent = 1

\* C13: whatever the servers do, the run eventually reaches the summary or a
\* fatal exit.
C13_RunTerminates == <>(pc \in {"done", "aborted"})

\* C14: when the operator has interrupted the run in the middle of a server's
\* pipeline and the process exits, no transport, channel or SFTP channel is open.
C14_InterruptClosesSessions ==
    pc = "interrupted" => (transports = {} /\ channels = {} /\ sftps = {})

\* C15: at no point are the transports or the channels of two servers open
\* together, and whenever something is sent on the channel, the transport the
\* client holds and the channel are those opened for the current server.
C15_NoSessionOverlap ==
    /\ Cardinality(transports) <= 1
    /\ Cardinality(channels) <= 1
    /\ pc \in SendPcs \cup {"completion"} => (ssh_transport = idx /\ idx \in channels)

\* C16: the loop only ever moves on to the next server of the configuration; a
\* connection is made only to the current server, only if none was made to it
\* before and it has not been counted as failed; and something is sent only on
\* the channel of the current server, which is connected and has not been
\* counted as failed.
C16_InOrderAtMostOnce ==
    [][ /\ idx' \in {idx, idx + 1}
        /\ \A t \in Targets :
              connects'[t] # connects[t] =>
                 /\ t = idx
                 /\ connects[t] = 0
                 /\ connects'[t] = 1
                 /\ counted[t] = [ok |-> 0, failed |-> 0]
        /\ Len(sent') > Len(sent) =>
              /\ idx' = idx
              /\ connect_result[idx] = "ok"
              /\ counted[idx].failed = 0
        /\ \A t \in Targets :
              (t < idx /\ counted[t].failed >= 1) => t \notin (transports' \ transports) ]_vars

C16_Witness ==
    /\ pc = "done"
    /\ counted[1].failed >= 1
    /\ counted[1].ok = 0
    /\ connect_result[1] = "ok"
    /\ \A t \in Targets : connects[t] = 1

\* C17: a local file is written only by the download step, taken with the
\* completion of the script detected and a path found; and when the completion
\* loop or the search ends a server's pipeline, that server is counted as failed
\* once and not as succeeded, no local file has been written for it, and the
\* loop moves on to the next server.
C17_TransferOnlyAfterCompletionAndFind ==
    [][ /\ local_files' # local_files =>
              /\ pc = "download"
              /\ script_completed
              /\ remote_output_path # 0
        /\ pc' = "download" => (script_completed' /\ remote_output_path' # 0)
        /\ (pc \in {"completion", "locate"} /\ pc' \notin {"completion", "open_sftp", "download"}) =>
              /\ pc' = "loop"
              /\ idx' = idx + 1
              /\ counted'[idx] = [ok |-> 0, failed |-> 1]
              /\ servers_failed' = servers_failed + 1
              /\ servers_successful' = servers_successful
              /\ local_files'[idx] = NoFile ]_vars

C17_Witness ==
    /\ pc = "loop"
    /\ idx = 2
    /\ 1 \in sftps
    /\ counted[1] = [ok |-> 0, failed |-> 1]
    /\ local_files[1] = NoFile

\* C18: when the run has reached its summary, a local file written by the run
\* exists for a server exactly if the server was counted as succeeded, and such
\* a file holds the bytes of the remote file.
C18_FileIffSucceeded ==
    pc = "done" =>
       \A t \in Targets :
          /\ local_files[t] # NoFile <=> counted[t].ok >= 1
          /\ local_files[t] # NoFile => local_files[t] = Copied

\* C19: while a prompt wait is in progress or has just returned nothing is sent
\* on the channel, and wherever the sudo password occurs among the things sent
\* on a channel, 'sudo ./script' was sent on it before.
C19_PasswordOnlyAfterSudo ==
    [][ /\ pc \in WaitPcs \cup RetPcs => Len(sent') <= Len(sent)
        /\ \A i \in 1..Len(sent') :
              sent'[i] = "password" => \E j \in 1..(i - 1) : sent'[j] = "sudo" ]_vars

C19_Witness ==
    /\ wp_exit = "credential"
    /\ pc \in RetPcs
    /\ AuthPromptMatch(output)
    /\ PasswordsSent = 0

\* C20: the operator is never asked more often than once for the sudo password
\* and, if the key requires one, once for the key passphrase; and from the first
\* connection attempt on, through all servers and up to the summary, exactly
\* these prompts have been shown.
ExpectedPrompts == IF key_requires_password THEN 2 ELSE 1

C20_PasswordsAskedOnce ==
    /\ asked <= ExpectedPrompts
    /\ (pc \in {"connect", "done"} \/ idx > 1 \/ \E t \in Targets : connects[t] > 0) =>
          asked = ExpectedPrompts

C20_Witness ==
    /\ pc = "done"
    /\ key_requires_password
    /\ asked = 2
    /\ servers_failed >= 1
    /\ \A t \in Targets : connects[t] = 1

\* C21: the step that loads the key leaves the run with the key loaded by the
\* loader of the file's own algorithm when one of Ed25519, RSA, ECDSA, DSS
\* accepts the file (with the passphrase given, if the file is encrypted), and
\* aborts the run when none does.
SupportedAlgorithms == {"Ed25519Key", "RSAKey", "ECDSAKey", "DSSKey"}

Accepted(kf, password) ==
    /\ kf.format \in SupportedAlgorithms
    /\ kf.encrypted => password = "secret"

C22_FlagFalseAfterInjection ==
    (pc = "completion" /\ PasswordsSent >= 1) => ~sudo_prompted

\* C22 as amended: the step that sends the sudo password leaves sudo_prompted
\* true, and the flag stays true for the rest of that server's pipeline.
C22_FlagTrueAfterInjection ==
    [][ /\ (Len(sent') > Len(sent) /\ sent'[Len(sent')] = "password") => sudo_prompted'
        /\ (sudo_prompted /\ idx' = idx) => sudo_prompted'
        /\ (PasswordsSent >= 1 /\ pc = "completion") => sudo_prompted ]_vars

C22_Witness ==
    /\ pc = "completion"
    /\ nrecv >= 2
    /\ PasswordsSent = 1
    /\ sudo_prompted

\* C23: the commands sent on a server's channel are, in this order, 'cd' (only
\* with a script directory), 'chmod', 'sudo', and whenever the pipeline is about
\* to send one of them, the prompt wait before it has returned because a shell
\* prompt pattern matched.
ExpectedCommands ==
    IF script_dir THEN <<"cd", "chmod", "sudo">> ELSE <<"chmod", "sudo">>

IsCommand(what) == what # "password"

CommandsSent == SelectSeq(sent, IsCommand)

CommandsInOrder ==
    /\ Len(CommandsSent) <= Len(ExpectedCommands)
    /\ CommandsSent = SubSeq(ExpectedCommands, 1, Len(CommandsSent))

C23_CommandsInOrderAfterPrompt ==
    /\ CommandsInOrder
    /\ pc \in SendPcs => wp_exit = "prompt"

\* C24: when everything a server wrote has been read and the buffer ends with
\* one of the generic prompts '$ ', '# ', '%' or with ']$ ', and holds no
\* login/password prompt, the detector has returned with a shell prompt detected.
GenericPrompts == { <<"$", " ">>, <<"#", " ">>, <<"%">>, <<"]", "$", " ">> }

EndsWith(buf, suffix) ==
    /\ Len(buf) >= Len(suffix)
    /\ SubSeq(buf, Len(buf) - Len(suffix) + 1, Len(buf)) = suffix

C24_GenericPromptsDetected ==
    ( /\ feed = <<>>
      /\ nrecv >= 1
      /\ \E g \in GenericPrompts : EndsWith(output, g)
      /\ ~AuthPromptMatch(output) ) => wp_exit = "prompt"

\* C25: the web application is started only after the data-fetching child
\* process is over; when fetch_data returned False (the child failed or could
\* not be started) the web application is started only if the operator's
\* answer is 'y', and with any other answer the launcher returns 1 and no web
\* application process exists.
C25_WebappOnlyAfterFetch ==
    /\ launcher.app_process # "none" =>
          /\ launcher.fetch_success \in {"True", "False"}
          /\ launcher.child = "started" => Terminated
          /\ launcher.fetch_success = "True" => pc = "done"
          /\ launcher.fetch_success = "False" => launcher.response = <<"y">>
    /\ (launcher.fetch_success = "False" /\ launcher.pc # "ask"
            /\ launcher.response # <<"y">>) =>
          launcher.status = "return 1" /\ launcher.app_process = "none"

\* C25 witness: the child ended in sys.exit(1), the operator typed 'Y', and
\* the web application runs.
C25_Witness ==
    /\ pc = "aborted"
    /\ launcher.fetch_success = "False"
    /\ launcher.typed = <<"Y">>
    /\ launcher.app_process = "running"

\* C26: when a run reaches the summary every target has been counted exactly
\* once: succeeded + failed is the number of targets and no target has an
\* increment in both counters, also when a close call raises after the
\* transfer succeeded.
C26_CountedExactlyOnce ==
    pc = "done" =>
        /\ servers_successful + servers_failed = NumTargets
        /\ \A t \in Targets : counted[t].ok + counted[t].failed = 1

\* the target whose local file is at file_path
TargetOf(file_path) == CHOOSE n \in TargetNames : LocalFile(n) = file_path

\* C27: for every target name, the server name the dashboard derives from
\* the local file the collector wrote for the target is the target's name,
\* also for names that contain '.md' or the prefix text.
C27_NameRoundTrip ==
    dashboard.response.kind = "servers" =>
        \A i \in 1..Len(dashboard.response.data) :
            dashboard.response.data[i].server_name
                = TargetOf(dashboard.response.data[i].file_path)

\* C28: /api/server/<server_name> returns the data of the collected file of
\* the target named server_name, and 'Server not found' when no collected
\* file is of a target with exactly that name.
C28_ServerByExactName ==
    dashboard.response.kind \in {"server", "Server not found"} =>
        IF dashboard.server_name \in dashboard.collected
        THEN /\ dashboard.response.kind = "server"
             /\ dashboard.response.data[1].file_path = LocalFile(dashboard.server_name)
        ELSE dashboard.response.kind = "Server not found"

====
